---------------------------- MODULE Spec2Model ----------------------------
(***************************************************************************)
(* A model of go-shp's shapefile.go: the Box value type, BBoxFromPoints,   *)
(* the Null / Point / PolyLine / Polygon geometry variants with their      *)
(* little-endian read and write, and the DBF Field constructors.           *)
(*                                                                         *)
(* Values.  A float64 is modelled by its IEEE-754 bit pattern, written as  *)
(* the tuple of its 8 bytes, most significant first (the uint64 that       *)
(* math.Float64bits returns, in base 256).  An int32 is an integer in      *)
(* -2^31 .. 2^31-1.  A byte stream is a sequence over 0..255.              *)
(***************************************************************************)
EXTENDS Integers, Sequences, FiniteSets, TLC

VARIABLES
    b0, b, prev, args,                        \* Box.Extend: receiver before any call, receiver now, receiver before the last call, the arguments so far
    shape, calls, fromPoints,                 \* BBox(): the value, the BBox() calls made on it, the direct BBoxFromPoints calls
    pc, val, sink, twinSink, fed, got, twinGot,   \* one record: the value, the bytes its write (and the Polygon twin's) produced, the bytes fed to read, what read left
    stream, pos, written, decoded, consumed,  \* several record bodies in one source
    field, call                               \* the Field constructors

boxVars    == <<b0, b, prev, args>>
bboxVars   == <<shape, calls, fromPoints>>
codecVars  == <<pc, val, sink, twinSink, fed, got, twinGot>>
streamVars == <<stream, pos, written, decoded, consumed>>
fieldVars  == <<field, call>>
vars       == <<boxVars, bboxVars, codecVars, streamVars, fieldVars>>

-----------------------------------------------------------------------------
(* float64 *)

Zero8 == <<0, 0, 0, 0, 0, 0, 0, 0>>

\* floor(log2 a) for 1 <= a < 32
Log2(a) == IF a >= 16 THEN 4 ELSE IF a >= 8 THEN 3 ELSE IF a >= 4 THEN 2 ELSE IF a >= 2 THEN 1 ELSE 0

Pow2(e) == IF e = 0 THEN 1 ELSE IF e = 1 THEN 2 ELSE IF e = 2 THEN 4 ELSE IF e = 3 THEN 8 ELSE 16

\* The float64 of an integer literal n, -32 < n < 32, as the source writes
\* it (0.0, Point{1, 2}): sign, biased exponent 1023 + e, and the fraction,
\* which for these values fits the top four fraction bits.
F(n) ==
    IF n = 0 THEN Zero8
    ELSE LET a    == IF n < 0 THEN 0 - n ELSE n
             e    == Log2(a)
             bexp == 1023 + e
             frac == (a - Pow2(e)) * Pow2(4 - e)
         IN  << (IF n < 0 THEN 128 ELSE 0) + (bexp \div 16),
                (bexp % 16) * 16 + frac, 0, 0, 0, 0, 0, 0 >>

\* math.NaN(): 0x7FF8000000000001
NaN == <<127, 248, 0, 0, 0, 0, 0, 1>>

\* exponent all ones and a non-zero fraction
IsNaN(x) ==
    /\ x[1] % 128 = 127
    /\ x[2] \div 16 = 15
    /\ \/ x[2] % 16 # 0
       \/ \E i \in 3..8 : x[i] # 0

Negative(x) == x[1] >= 128

\* the bit pattern without its sign bit
Magnitude(x) == [i \in 1..8 |-> IF i = 1 THEN x[1] % 128 ELSE x[i]]

LexLess(m, n) == \E i \in 1..8 : m[i] < n[i] /\ \A j \in 1..(i - 1) : m[j] = n[j]

\* Go's x < y on float64: false when either is NaN, -0 equals +0, otherwise
\* the order of sign and magnitude.
FLess(x, y) ==
    /\ ~IsNaN(x)
    /\ ~IsNaN(y)
    /\ IF Negative(x)
       THEN IF Negative(y) THEN LexLess(Magnitude(y), Magnitude(x))
                           ELSE Magnitude(x) # Zero8 \/ Magnitude(y) # Zero8
       ELSE ~Negative(y) /\ LexLess(Magnitude(x), Magnitude(y))

\* Go's x > y
FGreater(x, y) == FLess(y, x)

-----------------------------------------------------------------------------
(* The parts of the state a specification does not use stay as they start. *)

NoBox == [MinX |-> Zero8, MinY |-> Zero8, MaxX |-> Zero8, MaxY |-> Zero8]

BoxIdle    == b0 = NoBox /\ b = NoBox /\ prev = NoBox /\ args = <<>>

BBoxIdle   == shape = <<>> /\ calls = <<>> /\ fromPoints = <<>>

CodecIdle ==
    /\ pc = "idle" /\ val = <<>> /\ sink = <<>> /\ twinSink = <<>> /\ fed = 0
    /\ got = <<>> /\ twinGot = <<>>

StreamIdle == stream = <<>> /\ pos = 0 /\ written = <<>> /\ decoded = <<>> /\ consumed = <<>>

FieldIdle  == field = <<>> /\ call = <<>>

-----------------------------------------------------------------------------
(* Box *)

MkBox(minX, minY, maxX, maxY) == [MinX |-> minX, MinY |-> minY, MaxX |-> maxX, MaxY |-> maxY]

\* the zero value of Box, and what Null.BBox returns
ZeroBox == MkBox(F(0), F(0), F(0), F(0))

\* a mutant of Extend: MaxX is overwritten without the comparison
ExtendOverwritesMaxX(rcv, box) ==
    [ MinX |-> IF FLess(box.MinX, rcv.MinX) THEN box.MinX ELSE rcv.MinX,
      MinY |-> IF FLess(box.MinY, rcv.MinY) THEN box.MinY ELSE rcv.MinY,
      MaxX |-> box.MaxX,
      MaxY |-> IF FGreater(box.MaxY, rcv.MaxY) THEN box.MaxY ELSE rcv.MaxY ]

\* a mutant of Extend: MinY is compared the wrong way round
ExtendNarrowsMinY(rcv, box) ==
    [ MinX |-> IF FLess(box.MinX, rcv.MinX) THEN box.MinX ELSE rcv.MinX,
      MinY |-> IF FGreater(box.MinY, rcv.MinY) THEN box.MinY ELSE rcv.MinY,
      MaxX |-> IF FGreater(box.MaxX, rcv.MaxX) THEN box.MaxX ELSE rcv.MaxX,
      MaxY |-> IF FGreater(box.MaxY, rcv.MaxY) THEN box.MaxY ELSE rcv.MaxY ]

\* func (b *Box) Extend(box Box): the receiver after the call
Extend(rcv, box) ==
    [ MinX |-> IF FLess(box.MinX, rcv.MinX) THEN box.MinX ELSE rcv.MinX,
      MinY |-> IF FLess(box.MinY, rcv.MinY) THEN box.MinY ELSE rcv.MinY,
      MaxX |-> IF FGreater(box.MaxX, rcv.MaxX) THEN box.MaxX ELSE rcv.MaxX,
      MaxY |-> IF FGreater(box.MaxY, rcv.MaxY) THEN box.MaxY ELSE rcv.MaxY ]

\* the receiver after Extend was called with each box of s in turn
RECURSIVE ExtendAll(_, _)
ExtendAll(rcv, s) == IF s = <<>> THEN rcv ELSE ExtendAll(Extend(rcv, Head(s)), Tail(s))

\* the float64 values the boxes below are built from
FiniteSamples == {F(-1), F(0), F(2)}

FloatSamples == FiniteSamples \cup {NaN}

\* the boxes Extend is called on and with: (MinX, MinY, MaxX, MaxY) =
\* (x, x, y, y) for every two samples x, y, and (x, y, y, x) for every two
\* finite ones.  Boxes with MinX > MaxX or MinY > MaxY (degenerate), boxes
\* of one point and boxes with NaN coordinates are among them.
BoxSamples ==
    {MkBox(x, x, y, y) : x, y \in FloatSamples} \cup {MkBox(x, y, y, x) : x, y \in FiniteSamples}

\* the number of Extend calls on one receiver
MaxCalls == 2

\* var b Box = ...
InitBox ==
    /\ b0 \in BoxSamples
    /\ b = b0
    /\ prev = b0
    /\ args = <<>>
    /\ BBoxIdle /\ CodecIdle /\ StreamIdle /\ FieldIdle

\* b.Extend(box)
ExtendCall(box) ==
    /\ Len(args) < MaxCalls
    /\ prev' = b
    /\ b' = Extend(b, box)
    /\ args' = Append(args, box)
    /\ UNCHANGED <<b0, bboxVars, codecVars, streamVars, fieldVars>>

NextBox == \E box \in BoxSamples : ExtendCall(box)

-----------------------------------------------------------------------------
(* Box.Extend called up to MaxCalls times on one receiver *)

SpecBox == InitBox /\ [][NextBox]_vars

\* Go's x <= y on float64
FLessEq(x, y) == ~IsNaN(x) /\ ~IsNaN(y) /\ ~FLess(y, x)

\* box o lies inside box a, bound by bound
Inside(o, a) ==
    /\ FLessEq(a.MinX, o.MinX) /\ FLessEq(a.MinY, o.MinY)
    /\ FLessEq(o.MaxX, a.MaxX) /\ FLessEq(o.MaxY, a.MaxY)

\* s with its elements i and j exchanged
Swapped(s, i, j) == [k \in 1..Len(s) |-> IF k = i THEN s[j] ELSE IF k = j THEN s[i] ELSE s[k]]

BoxHasNaN(x) == IsNaN(x.MinX) \/ IsNaN(x.MinY) \/ IsNaN(x.MaxX) \/ IsNaN(x.MaxY)

\* C8: Box.Extend is order-independent and idempotent.  Whatever the
\* receiver b0 and the arguments were, the receiver after the calls equals
\* the receiver the same calls leave in any other order (any two arguments
\* exchanged); a call that repeats the previous call's argument leaves the
\* receiver as the previous call left it; and a call whose argument lies
\* inside the receiver leaves the receiver unchanged.
C8_ExtendOrderIndependentIdempotent ==
    LET n == Len(args) IN
    /\ \A i, j \in 1..n : ExtendAll(b0, Swapped(args, i, j)) = b
    /\ (n >= 2 /\ args[n] = args[n - 1]) => b = prev
    /\ (n >= 1 /\ Inside(args[n], prev)) => b = prev

\* C8 witness: two calls with different arguments changed the receiver,
\* each in a different bound
C8_Witness ==
    /\ Len(args) = 2
    /\ args[1] # args[2]
    /\ prev # b0
    /\ b # prev

\* the least and the greatest of a non-empty set of non-NaN float64 values
IsLeast(x, S)    == x \in S /\ \A y \in S : FLessEq(x, y)
IsGreatest(x, S) == x \in S /\ \A y \in S : FLessEq(y, x)

\* the receiver is no narrower than b0, covers every argument, and each of
\* its bounds is the least / greatest of that bound over b0 and the arguments
WidenedOverAll ==
    LET all == {b0} \cup {args[i] : i \in 1..Len(args)} IN
    /\ Inside(b0, b)
    /\ \A i \in 1..Len(args) : Inside(args[i], b)
    /\ IsLeast(b.MinX, {x.MinX : x \in all})
    /\ IsLeast(b.MinY, {x.MinY : x \in all})
    /\ IsGreatest(b.MaxX, {x.MaxX : x \in all})
    /\ IsGreatest(b.MaxY, {x.MaxY : x \in all})

\* C9 as stated: after any sequence of Extend calls the receiver is no
\* narrower than b0 was, covers every argument, and each bound is the
\* min / max over b0 and the arguments.
C9_ExtendOnlyWidens_AsStated == Len(args) >= 1 => WidenedOverAll

\* C9 as amended: the same, provided no coordinate of b0 or of an argument
\* is NaN (degenerate boxes, MinX > MaxX or MinY > MaxY, included).
C9_ExtendOnlyWidens ==
    (/\ Len(args) >= 1
     /\ ~BoxHasNaN(b0)
     /\ \A i \in 1..Len(args) : ~BoxHasNaN(args[i])) => WidenedOverAll

\* C9 witness: NaN-free boxes, one argument degenerate (MinX > MaxX), and
\* the calls widened the receiver
C9_Witness ==
    /\ Len(args) = 2
    /\ ~BoxHasNaN(b0) /\ ~BoxHasNaN(args[1]) /\ ~BoxHasNaN(args[2])
    /\ FGreater(args[1].MinX, args[1].MaxX)
    /\ b # b0
    /\ b # prev

-----------------------------------------------------------------------------
(* BBoxFromPoints and the geometry variants' BBox() *)

MkPoint(x, y) == [X |-> x, Y |-> y]

\* Box{p.X, p.Y, p.X, p.Y}
BoxOfPoint(p) == MkBox(p.X, p.Y, p.X, p.Y)

\* the else branch of the loop body: each bound relaxed by p
Relax(box, p) ==
    [ MinX |-> IF FLess(p.X, box.MinX) THEN p.X ELSE box.MinX,
      MinY |-> IF FLess(p.Y, box.MinY) THEN p.Y ELSE box.MinY,
      MaxX |-> IF FGreater(p.X, box.MaxX) THEN p.X ELSE box.MaxX,
      MaxY |-> IF FGreater(p.Y, box.MaxY) THEN p.Y ELSE box.MaxY ]

\* the loop "for k, p := range points" from index k on (k counts from 1 here)
RECURSIVE BBoxLoop(_, _, _)
BBoxLoop(points, k, box) ==
    IF k > Len(points) THEN box
    ELSE BBoxLoop(points, k + 1, IF k = 1 THEN BoxOfPoint(points[k]) ELSE Relax(box, points[k]))

\* a mutant of BBoxFromPoints: the last point seeds the box, not the first
RECURSIVE SeedLastLoop(_, _, _)
SeedLastLoop(points, k, box) ==
    IF k > Len(points) THEN box
    ELSE SeedLastLoop(points, k + 1,
                      IF k = Len(points) THEN BoxOfPoint(points[k]) ELSE Relax(box, points[k]))

BBoxFromPointsSeedsLast(points) == SeedLastLoop(points, 1, ZeroBox)

\* func BBoxFromPoints(points []Point) (box Box): the named result starts as
\* the zero Box
BBoxFromPoints(points) == BBoxLoop(points, 1, ZeroBox)

MkNull == [variant |-> "Null"]

MkPointShape(p) == [variant |-> "Point", X |-> p.X, Y |-> p.Y]

MkPoly(variant, box, numParts, numPoints, parts, points) ==
    [variant |-> variant, Box |-> box, NumParts |-> numParts, NumPoints |-> numPoints,
     Parts |-> parts, Points |-> points]

IsPoly(x) == x.variant \in {"PolyLine", "Polygon"}

Null_BBox(n) == MkBox(F(0), F(0), F(0), F(0))

Point_BBox(p) == MkBox(p.X, p.Y, p.X, p.Y)

\* a mutant of PolyLine.BBox: the stored Box is returned
PolyLine_BBoxReturnsStored(p) == p.Box

PolyLine_BBox(p) == BBoxFromPoints(p.Points)

Polygon_BBox(p) == BBoxFromPoints(p.Points)

\* shape.BBox() through the Shape interface
BBox(x) ==
    CASE x.variant = "Null"     -> Null_BBox(x)
      [] x.variant = "Point"    -> Point_BBox(x)
      [] x.variant = "PolyLine" -> PolyLine_BBox(x)
      [] x.variant = "Polygon"  -> Polygon_BBox(x)

\* all sequences over S of length at most n
SeqsUpTo(S, n) == UNION {[1..m -> S] : m \in 0..n}

\* the points of the geometries below: the three of the documented example
\* and two with a NaN coordinate
PointSamples ==
    {MkPoint(F(1), F(2)), MkPoint(F(-1), F(5)), MkPoint(F(3), F(0)),
     MkPoint(NaN, F(2)), MkPoint(F(0), NaN)}

\* the stored Box of a PolyLine / Polygon: unset, or one that matches no
\* point set below
StoredBoxSamples == {ZeroBox, MkBox(F(7), F(7), F(-7), F(-7))}

\* the longest Points array of a geometry BBox() is called on
MaxBBoxPoints == 3

\* the number of BBox() calls on one geometry
MaxBBoxCalls == 2

BBoxShapes ==
    {MkNull}
    \cup {MkPointShape(p) : p \in PointSamples}
    \cup {MkPoly(v, bx, IF pts = <<>> THEN 0 ELSE 1, Len(pts), IF pts = <<>> THEN <<>> ELSE <<0>>, pts) :
            v \in {"PolyLine", "Polygon"}, bx \in StoredBoxSamples,
            pts \in SeqsUpTo(PointSamples, MaxBBoxPoints)}

InitBBox ==
    /\ shape \in BBoxShapes
    /\ calls = <<>>
    /\ fromPoints = <<>>
    /\ BoxIdle /\ CodecIdle /\ StreamIdle /\ FieldIdle

\* box := shape.BBox(): the receiver is passed by value, so the caller's
\* value is what it was
BBoxCall ==
    /\ fromPoints = <<>>
    /\ Len(calls) < MaxBBoxCalls
    /\ UNCHANGED <<shape, fromPoints, boxVars, codecVars, streamVars, fieldVars>>
    /\ calls' = Append(calls, [rcv |-> shape, ret |-> BBox(shape), after |-> shape'])

\* p.Box = box: the caller (or read) stores another Box in the value
StoreBox(box) ==
    /\ IsPoly(shape)
    /\ fromPoints = <<>>
    /\ Len(calls) < MaxBBoxCalls
    /\ box # shape.Box
    /\ shape' = [shape EXCEPT !.Box = box]
    /\ UNCHANGED <<calls, fromPoints, boxVars, codecVars, streamVars, fieldVars>>

\* box := BBoxFromPoints(p.Points), called directly
FromPointsCall ==
    /\ IsPoly(shape)
    /\ calls = <<>>
    /\ fromPoints = <<>>
    /\ fromPoints' = <<[points |-> shape.Points, ret |-> BBoxFromPoints(shape.Points)]>>
    /\ UNCHANGED <<shape, calls, boxVars, codecVars, streamVars, fieldVars>>

NextBBox ==
    \/ BBoxCall
    \/ \E box \in StoredBoxSamples : StoreBox(box)
    \/ FromPointsCall

SpecBBox == InitBBox /\ [][NextBBox]_vars

PointHasNaN(p) == IsNaN(p.X) \/ IsNaN(p.Y)

\* box is the minimal covering box of the non-empty sequence points
MinimalCover(box, points) ==
    LET ps == {points[i] : i \in 1..Len(points)} IN
    /\ IsLeast(box.MinX, {p.X : p \in ps})
    /\ IsLeast(box.MinY, {p.Y : p \in ps})
    /\ IsGreatest(box.MaxX, {p.X : p \in ps})
    /\ IsGreatest(box.MaxY, {p.Y : p \in ps})
    /\ FLessEq(box.MinX, box.MaxX)
    /\ FLessEq(box.MinY, box.MaxY)
    /\ \A p \in ps : Inside(BoxOfPoint(p), box)

\* the same box results from points in any other order (any two exchanged)
OrderIndependent(box, points) ==
    \A i, j \in 1..Len(points) : BBoxFromPoints(Swapped(points, i, j)) = box

ExamplePoints == <<MkPoint(F(1), F(2)), MkPoint(F(-1), F(5)), MkPoint(F(3), F(0))>>

\* C6 as stated: BBoxFromPoints returns {0,0,0,0} for the empty sequence
\* and, for every non-empty sequence, the minimal covering box (min / max of
\* the coordinates, MinX <= MaxX, MinY <= MaxY, every point inside), the
\* same in any order of the points.
C6_BBoxFromPointsMinimal_AsStated ==
    \A n \in 1..Len(fromPoints) :
        LET e == fromPoints[n] IN
        IF e.points = <<>> THEN e.ret = ZeroBox
        ELSE MinimalCover(e.ret, e.points) /\ OrderIndependent(e.ret, e.points)

\* C6 as amended: the same for every non-empty sequence none of whose
\* coordinates is NaN; [(1,2), (-1,5), (3,0)] gives {-1, 0, 3, 5}.
C6_BBoxFromPointsMinimal ==
    \A n \in 1..Len(fromPoints) :
        LET e == fromPoints[n] IN
        /\ e.points = <<>> => e.ret = ZeroBox
        /\ (e.points # <<>> /\ \A i \in 1..Len(e.points) : ~PointHasNaN(e.points[i]))
              => MinimalCover(e.ret, e.points) /\ OrderIndependent(e.ret, e.points)
        /\ e.points = ExamplePoints => e.ret = MkBox(F(-1), F(0), F(3), F(5))

\* C6 witness: BBoxFromPoints ran on three different NaN-free points whose
\* first point is none of the four bounds' only source
C6_Witness ==
    /\ Len(fromPoints) = 1
    /\ fromPoints[1].points = ExamplePoints
    /\ fromPoints[1].ret # BoxOfPoint(ExamplePoints[1])

\* C7: for PolyLine and Polygon, BBox() is BBoxFromPoints(Points) whatever
\* the stored Box is: calls on values with equal Points return equal boxes,
\* and a call leaves the value, its stored Box included, as it was.
C7_BBoxIgnoresStoredBox ==
    /\ \A i \in 1..Len(calls) :
         IsPoly(calls[i].rcv) =>
            /\ calls[i].ret = BBoxFromPoints(calls[i].rcv.Points)
            /\ calls[i].after = calls[i].rcv
    /\ \A i, j \in 1..Len(calls) :
         (IsPoly(calls[i].rcv) /\ calls[i].rcv.Points = calls[j].rcv.Points)
            => calls[i].ret = calls[j].ret

\* C7 witness: BBox() was called twice on a PolyLine with the same two or
\* more points and two different stored boxes, neither of them the result
C7_Witness ==
    /\ Len(calls) = 2
    /\ calls[1].rcv.variant = "PolyLine"
    /\ Len(calls[1].rcv.Points) >= 2
    /\ calls[1].rcv.Box # calls[2].rcv.Box
    /\ calls[1].ret # calls[1].rcv.Box
    /\ calls[2].ret # calls[2].rcv.Box

-----------------------------------------------------------------------------
(* encoding/binary, little-endian, as read and write use it *)

\* binary.LittleEndian.PutUint32(bs, uint32(v)) for an int32 v: the two's
\* complement bytes, least significant first
Int32Bytes(v) ==
    << v % 256, (v \div 256) % 256, (v \div 65536) % 256, (v \div 16777216) % 256 >>

\* int32(binary.LittleEndian.Uint32(bs))
Int32FromBytes(bs) ==
    bs[1] + 256 * bs[2] + 65536 * bs[3]
    + 16777216 * (IF bs[4] >= 128 THEN bs[4] - 256 ELSE bs[4])

\* binary.LittleEndian.PutUint64(bs, math.Float64bits(x))
Float64Bytes(x) == [i \in 1..8 |-> x[9 - i]]

\* a mutant of Float64FromBytes: the bytes are taken most significant first
Float64FromBytesBigEndian(bs) == [i \in 1..8 |-> bs[i]]

\* math.Float64frombits(binary.LittleEndian.Uint64(bs))
Float64FromBytes(bs) == [i \in 1..8 |-> bs[9 - i]]

\* bytes from..to of bs (from counts from 1)
Slice(bs, from, to) == SubSeq(bs, from, to)

\* a struct is encoded field by field, in declaration order
EncodeBox(box) ==
    Float64Bytes(box.MinX) \o Float64Bytes(box.MinY) \o Float64Bytes(box.MaxX) \o Float64Bytes(box.MaxY)

DecodeBox(bs) ==
    MkBox(Float64FromBytes(Slice(bs, 1, 8)), Float64FromBytes(Slice(bs, 9, 16)),
          Float64FromBytes(Slice(bs, 17, 24)), Float64FromBytes(Slice(bs, 25, 32)))

EncodePoint(p) == Float64Bytes(p.X) \o Float64Bytes(p.Y)

DecodePoint(bs) == MkPoint(Float64FromBytes(Slice(bs, 1, 8)), Float64FromBytes(Slice(bs, 9, 16)))

\* a slice is encoded element by element
RECURSIVE EncodeInt32s(_)
EncodeInt32s(s) == IF s = <<>> THEN <<>> ELSE Int32Bytes(Head(s)) \o EncodeInt32s(Tail(s))

RECURSIVE EncodePoints(_)
EncodePoints(s) == IF s = <<>> THEN <<>> ELSE EncodePoint(Head(s)) \o EncodePoints(Tail(s))

DecodeInt32s(bs, n) == [i \in 1..n |-> Int32FromBytes(Slice(bs, 4 * i - 3, 4 * i))]

DecodePoints(bs, n) == [i \in 1..n |-> DecodePoint(Slice(bs, 16 * i - 15, 16 * i))]

\* io.ReadFull(r, buf) inside binary.Read, for a buf of size bytes: it takes
\* size bytes when the source has them (err = nil); otherwise it takes all
\* that is left and err is io.EOF (nothing was left) or io.ErrUnexpectedEOF.
\* A read of 0 bytes succeeds.
ReadFull(source, size) ==
    IF Len(source) >= size
    THEN [err |-> "nil", bytes |-> Slice(source, 1, size), rest |-> Slice(source, size + 1, Len(source))]
    ELSE [err |-> IF source = <<>> THEN "EOF" ELSE "ErrUnexpectedEOF", bytes |-> <<>>, rest |-> <<>>]

\* binary.Read(file, binary.LittleEndian, &box), box holding cur: on an
\* error binary.Read returns before it decodes, and box keeps cur
ReadBox(source, cur) ==
    LET r == ReadFull(source, 32)
    IN  [err |-> r.err, rest |-> r.rest, data |-> IF r.err = "nil" THEN DecodeBox(r.bytes) ELSE cur]

\* binary.Read(file, binary.LittleEndian, &n) for an int32 n
ReadInt32(source, cur) ==
    LET r == ReadFull(source, 4)
    IN  [err |-> r.err, rest |-> r.rest, data |-> IF r.err = "nil" THEN Int32FromBytes(r.bytes) ELSE cur]

\* binary.Read(file, binary.LittleEndian, &s) for an []int32 s
ReadInt32s(source, cur) ==
    LET r == ReadFull(source, 4 * Len(cur))
    IN  [err |-> r.err, rest |-> r.rest,
         data |-> IF r.err = "nil" THEN DecodeInt32s(r.bytes, Len(cur)) ELSE cur]

\* binary.Read(file, binary.LittleEndian, &s) for a []Point s
ReadPoints(source, cur) ==
    LET r == ReadFull(source, 16 * Len(cur))
    IN  [err |-> r.err, rest |-> r.rest,
         data |-> IF r.err = "nil" THEN DecodePoints(r.bytes, Len(cur)) ELSE cur]

\* binary.Read(file, binary.LittleEndian, p) for a *Point p
ReadPoint(source, cur) ==
    LET r == ReadFull(source, 16)
    IN  [err |-> r.err, rest |-> r.rest, data |-> IF r.err = "nil" THEN DecodePoint(r.bytes) ELSE cur]

\* make([]int32, n), make([]Point, n): zero-filled
ZeroInt32s(n) == [i \in 1..n |-> 0]

ZeroPoints(n) == [i \in 1..n |-> MkPoint(Zero8, Zero8)]

-----------------------------------------------------------------------------
(* write: the bytes each variant appends to the sink *)

Null_write(n) == <<>>

Point_write(p) == EncodePoint(p)

PolyLine_write(p) ==
    EncodeBox(p.Box) \o Int32Bytes(p.NumParts) \o Int32Bytes(p.NumPoints)
    \o EncodeInt32s(p.Parts) \o EncodePoints(p.Points)

\* a mutant of Polygon.write: NumPoints is written before NumParts
Polygon_writeCountsExchanged(p) ==
    EncodeBox(p.Box) \o Int32Bytes(p.NumPoints) \o Int32Bytes(p.NumParts)
    \o EncodeInt32s(p.Parts) \o EncodePoints(p.Points)

Polygon_write(p) ==
    EncodeBox(p.Box) \o Int32Bytes(p.NumParts) \o Int32Bytes(p.NumPoints)
    \o EncodeInt32s(p.Parts) \o EncodePoints(p.Points)

\* shape.write(file) through the Shape interface
Write(x) ==
    CASE x.variant = "Null"     -> Null_write(x)
      [] x.variant = "Point"    -> Point_write(x)
      [] x.variant = "PolyLine" -> PolyLine_write(x)
      [] x.variant = "Polygon"  -> Polygon_write(x)

-----------------------------------------------------------------------------
(* read: what the call leaves.  value is the receiver afterwards, rest the *)
(* source afterwards, errs the errors binary.Read returned (read discards  *)
(* each of them), outcome "returned" or "panic".  read has no result, so   *)
(* "returned" is all a caller sees of a call that did not panic.           *)

\* the zero value a caller reads into
Fresh(variant) ==
    CASE variant = "Null"  -> MkNull
      [] variant = "Point" -> [variant |-> "Point", X |-> Zero8, Y |-> Zero8]
      [] OTHER             -> MkPoly(variant, NoBox, 0, 0, <<>>, <<>>)

Returned(value, rest, errs) == [value |-> value, rest |-> rest, errs |-> errs, outcome |-> "returned"]

\* a runtime panic (makeslice: len out of range) unwinds read
Panicked(value, rest, errs) == [value |-> value, rest |-> rest, errs |-> errs, outcome |-> "panic"]

\* binary.Read(file, binary.LittleEndian, n) for the empty struct: 0 bytes
Null_read(n, source) ==
    LET r == ReadFull(source, 0)
    IN  Returned(n, r.rest, <<r.err>>)

\* a mutant of Point.read: only X is read
Point_readXOnly(p, source) ==
    LET r == ReadFull(source, 8)
    IN  Returned([p EXCEPT !.X = IF r.err = "nil" THEN Float64FromBytes(r.bytes) ELSE p.X],
                 r.rest, <<r.err>>)

Point_read(p, source) ==
    LET r == ReadPoint(source, MkPoint(p.X, p.Y))
    IN  Returned([p EXCEPT !.X = r.data.X, !.Y = r.data.Y], r.rest, <<r.err>>)

PolyLine_read(p, source) ==
    LET r1 == ReadBox(source, p.Box)
        r2 == ReadInt32(r1.rest, p.NumParts)
        r3 == ReadInt32(r2.rest, p.NumPoints)
        h  == [p EXCEPT !.Box = r1.data, !.NumParts = r2.data, !.NumPoints = r3.data]
        e3 == <<r1.err, r2.err, r3.err>>
    IN  IF h.NumParts < 0 THEN Panicked(h, r3.rest, e3)
        ELSE IF h.NumPoints < 0
        THEN Panicked([h EXCEPT !.Parts = ZeroInt32s(h.NumParts)], r3.rest, e3)
        ELSE LET r4 == ReadInt32s(r3.rest, ZeroInt32s(h.NumParts))
                 r5 == ReadPoints(r4.rest, ZeroPoints(h.NumPoints))
             IN  Returned([h EXCEPT !.Parts = r4.data, !.Points = r5.data], r5.rest,
                          e3 \o <<r4.err, r5.err>>)

\* a mutant of Polygon.read: Points is read before Parts
Polygon_readPointsFirst(p, source) ==
    LET r1 == ReadBox(source, p.Box)
        r2 == ReadInt32(r1.rest, p.NumParts)
        r3 == ReadInt32(r2.rest, p.NumPoints)
        h  == [p EXCEPT !.Box = r1.data, !.NumParts = r2.data, !.NumPoints = r3.data]
        e3 == <<r1.err, r2.err, r3.err>>
    IN  IF h.NumParts < 0 THEN Panicked(h, r3.rest, e3)
        ELSE IF h.NumPoints < 0
        THEN Panicked([h EXCEPT !.Parts = ZeroInt32s(h.NumParts)], r3.rest, e3)
        ELSE LET r5 == ReadPoints(r3.rest, ZeroPoints(h.NumPoints))
                 r4 == ReadInt32s(r5.rest, ZeroInt32s(h.NumParts))
             IN  Returned([h EXCEPT !.Parts = r4.data, !.Points = r5.data], r4.rest,
                          e3 \o <<r5.err, r4.err>>)

Polygon_read(p, source) ==
    LET r1 == ReadBox(source, p.Box)
        r2 == ReadInt32(r1.rest, p.NumParts)
        r3 == ReadInt32(r2.rest, p.NumPoints)
        h  == [p EXCEPT !.Box = r1.data, !.NumParts = r2.data, !.NumPoints = r3.data]
        e3 == <<r1.err, r2.err, r3.err>>
    IN  IF h.NumParts < 0 THEN Panicked(h, r3.rest, e3)
        ELSE IF h.NumPoints < 0
        THEN Panicked([h EXCEPT !.Parts = ZeroInt32s(h.NumParts)], r3.rest, e3)
        ELSE LET r4 == ReadInt32s(r3.rest, ZeroInt32s(h.NumParts))
                 r5 == ReadPoints(r4.rest, ZeroPoints(h.NumPoints))
             IN  Returned([h EXCEPT !.Parts = r4.data, !.Points = r5.data], r5.rest,
                          e3 \o <<r4.err, r5.err>>)

\* shape.read(file) through the Shape interface
Read(x, source) ==
    CASE x.variant = "Null"     -> Null_read(x, source)
      [] x.variant = "Point"    -> Point_read(x, source)
      [] x.variant = "PolyLine" -> PolyLine_read(x, source)
      [] x.variant = "Polygon"  -> Polygon_read(x, source)

-----------------------------------------------------------------------------
(* One record: a value is written to an empty stream, and the first fed    *)
(* bytes of the stream are read into a fresh value of the same variant.    *)
(* For a PolyLine the Polygon with the same field values (its twin) writes *)
(* to a stream of its own and reads the same input, and the other way      *)
(* round.                                                                  *)

\* the points of the records
CodecPointSamples == {MkPoint(F(-1), F(5)), MkPoint(F(3), NaN)}

\* the elements of Parts
PartSamples == {258, -2}

\* the longest Parts and Points arrays of a record
MaxParts == 2

MaxPoints == 2

\* the NumParts, NumPoints a value holds beside arrays of nParts and nPoints
\* elements: the lengths, or one of them negative or one too large (write
\* does not validate; such bytes are what a malformed file holds)
DeclaredCounts(nParts, nPoints) ==
    {<<nParts, nPoints>>, <<-1, nPoints>>, <<nParts + 1, nPoints>>,
     <<nParts, -1>>, <<nParts, nPoints + 1>>}

CodecShapes ==
    {MkNull}
    \cup {MkPointShape(p) : p \in CodecPointSamples}
    \cup UNION {{MkPoly(v, bx, c[1], c[2], parts, pts) : c \in DeclaredCounts(Len(parts), Len(pts))} :
                  v \in {"PolyLine", "Polygon"}, bx \in StoredBoxSamples,
                  parts \in SeqsUpTo(PartSamples, MaxParts),
                  pts \in SeqsUpTo(CodecPointSamples, MaxPoints)}

\* x is a valid value: counts not negative and equal to the arrays' lengths
Valid(x) ==
    IsPoly(x) => /\ x.NumParts >= 0 /\ x.NumPoints >= 0
                 /\ Len(x.Parts) = x.NumParts /\ Len(x.Points) = x.NumPoints

\* the other variant with the same field values
Twin(x) == [x EXCEPT !.variant = IF x.variant = "PolyLine" THEN "Polygon" ELSE "PolyLine"]

InitCodec ==
    /\ pc = "start"
    /\ val \in CodecShapes
    /\ sink = <<>>
    /\ twinSink = <<>>
    /\ fed = 0
    /\ got = <<>>
    /\ twinGot = <<>>
    /\ BoxIdle /\ BBoxIdle /\ StreamIdle /\ FieldIdle

\* val.write(file) on an empty stream
WriteCall ==
    /\ pc = "start"
    /\ pc' = "written"
    /\ sink' = sink \o Write(val)
    /\ twinSink' = IF IsPoly(val) THEN twinSink \o Write(Twin(val)) ELSE <<>>
    /\ UNCHANGED <<val, fed, got, twinGot, boxVars, bboxVars, streamVars, fieldVars>>

\* fresh.read(file) on a source that holds the first n bytes written
ReadCall(n) ==
    /\ pc = "written"
    /\ pc' = "read"
    /\ fed' = n
    /\ got' = Read(Fresh(val.variant), Slice(sink, 1, n))
    /\ twinGot' = IF IsPoly(val) THEN Read(Fresh(Twin(val).variant), Slice(sink, 1, n)) ELSE <<>>
    /\ UNCHANGED <<val, sink, twinSink, boxVars, bboxVars, streamVars, fieldVars>>

NextCodec ==
    \/ WriteCall
    \/ \E n \in 0..Len(sink) : ReadCall(n)

SpecCodec == InitCodec /\ [][NextCodec]_vars

\* C1: round trip.  A valid value of any variant (for PolyLine / Polygon:
\* counts not negative and equal to the arrays' lengths), written to an
\* empty stream and read back whole into a fresh value of the same variant,
\* gives a value with the same fields; read returns and leaves nothing of
\* the stream unread.
C1_RoundTrip ==
    (pc = "read" /\ Valid(val) /\ fed = Len(sink)) =>
        /\ got.outcome = "returned"
        /\ got.value = val
        /\ got.rest = <<>>

\* C1 witness: a Polygon with two parts and two points, none of them zero,
\* was written and read back whole
C1_Witness ==
    /\ pc = "read"
    /\ val.variant = "Polygon"
    /\ Valid(val)
    /\ fed = Len(sink)
    /\ val.Parts = <<258, -2>>
    /\ val.Points = <<MkPoint(F(-1), F(5)), MkPoint(F(3), NaN)>>
    /\ val.Box # NoBox
    /\ got.value.Points = val.Points

\* some binary.Read of the call found the source exhausted
CameUpShort(r) == \E i \in 1..Len(r.errs) : r.errs[i] # "nil"

\* C2: decoding a PolyLine or Polygon from a source that is exhausted
\* before a field completes ends in a TruncatedInput error reported to the
\* caller: read neither panics nor returns as if the value were complete.
C2_TruncatedReadReportsError ==
    (pc = "read" /\ IsPoly(val) /\ CameUpShort(got)) => got.outcome = "TruncatedInput"

\* the header (Box, NumParts, NumPoints) was decoded from the source
HeaderDecoded(r) == r.errs[1] = "nil" /\ r.errs[2] = "nil" /\ r.errs[3] = "nil"

\* the int32 elements left in a source of n bytes after the 40 header bytes
PartsLeft(n) == (n - 40) \div 4

\* the Point elements left after the header and nParts int32 elements
PointsLeft(n, nParts) == (n - 40 - 4 * nParts) \div 16

\* C3: when the NumParts or NumPoints decoded from the wire is negative or
\* larger than the number of elements left in the source, read rejects or
\* clamps it: it does not panic, and it allocates no array of that size.
C3_ImplausibleCountsRejected ==
    (pc = "read" /\ IsPoly(val) /\ HeaderDecoded(got)) =>
        LET v         == got.value
            badParts  == v.NumParts < 0 \/ v.NumParts > PartsLeft(fed)
            badPoints == v.NumPoints < 0
                         \/ (~badParts /\ v.NumPoints > PointsLeft(fed, v.NumParts))
        IN  /\ (badParts \/ badPoints) => got.outcome # "panic"
            /\ badParts  => Len(v.Parts) # v.NumParts
            /\ badPoints => Len(v.Points) # v.NumPoints

\* the fields PolyLine and Polygon share
Fields(x) ==
    [Box |-> x.Box, NumParts |-> x.NumParts, NumPoints |-> x.NumPoints,
     Parts |-> x.Parts, Points |-> x.Points]

\* C4: a PolyLine and a Polygon with the same field values (valid or not)
\* write the same bytes, and read of the same input bytes (whole or cut
\* short) leaves both with the same field values, the same bytes unread and
\* the same outcome.
C4_PolyLinePolygonSameWire ==
    /\ (pc \in {"written", "read"} /\ IsPoly(val)) => twinSink = sink
    /\ (pc = "read" /\ IsPoly(val)) =>
          /\ Fields(twinGot.value) = Fields(got.value)
          /\ twinGot.rest = got.rest
          /\ twinGot.errs = got.errs
          /\ twinGot.outcome = got.outcome

\* C4 witness: a PolyLine whose NumParts is not the length of its Parts
\* was written with parts and points, and both variants read all its bytes
\* and decoded parts from them
C4_Witness ==
    /\ pc = "read"
    /\ val.variant = "PolyLine"
    /\ val.NumParts = Len(val.Parts) + 1
    /\ val.Parts # <<>>
    /\ val.Points # <<>>
    /\ fed = Len(sink)
    /\ twinGot.value.variant = "Polygon"
    /\ got.outcome = "returned"
    /\ got.value.Parts # ZeroInt32s(Len(got.value.Parts))

-----------------------------------------------------------------------------
(* Several record bodies in one source: well-formed values are written one *)
(* after another to one stream, and a reader decodes them in order, each   *)
(* into a fresh value of the variant the record was written as (the tag    *)
(* the container layer reads tells it which).                              *)

\* the Parts and Points of the PolyLine / Polygon records
StreamArrays ==
    { << <<>>, <<>> >>,
      << <<258>>, <<MkPoint(F(-1), F(5))>> >>,
      << <<-2>>, <<MkPoint(F(3), NaN), MkPoint(F(-1), F(5))>> >>,
      << <<258, -2>>, <<MkPoint(F(-1), F(5)), MkPoint(F(3), NaN)>> >> }

StreamShapes ==
    {MkNull}
    \cup {MkPointShape(p) : p \in CodecPointSamples}
    \cup {MkPoly(v, BBoxFromPoints(a[2]), Len(a[1]), Len(a[2]), a[1], a[2]) :
            v \in {"PolyLine", "Polygon"}, a \in StreamArrays}

\* the number of record bodies in the source
MaxRecords == 3

InitStream ==
    /\ stream = <<>>
    /\ pos = 0
    /\ written = <<>>
    /\ decoded = <<>>
    /\ consumed = <<>>
    /\ BoxIdle /\ BBoxIdle /\ CodecIdle /\ FieldIdle

\* x.write(file): the body is appended to the stream
AppendRecord(x) ==
    /\ Len(written) < MaxRecords
    /\ stream' = stream \o Write(x)
    /\ written' = Append(written, x)
    /\ UNCHANGED <<pos, decoded, consumed, boxVars, bboxVars, codecVars, fieldVars>>

\* fresh.read(file) with the source at pos, for the next record
ReadNext ==
    /\ Len(decoded) < Len(written)
    /\ LET source == Slice(stream, pos + 1, Len(stream))
           r      == Read(Fresh(written[Len(decoded) + 1].variant), source)
           taken  == Len(source) - Len(r.rest)
       IN  /\ r.outcome = "returned"
           /\ decoded' = Append(decoded, r.value)
           /\ consumed' = Append(consumed, taken)
           /\ pos' = pos + taken
    /\ UNCHANGED <<stream, written, boxVars, bboxVars, codecVars, fieldVars>>

NextStream ==
    \/ \E x \in StreamShapes : AppendRecord(x)
    \/ ReadNext

SpecStream == InitStream /\ [][NextStream]_vars

\* the length of a record body: 0 for Null, 16 for Point,
\* 40 + 4*NumParts + 16*NumPoints for PolyLine and Polygon
BodySize(x) ==
    CASE x.variant = "Null"  -> 0
      [] x.variant = "Point" -> 16
      [] OTHER               -> 40 + 4 * x.NumParts + 16 * x.NumPoints

\* the offset of the body after the first k bodies
RECURSIVE BodyStart(_, _)
BodyStart(s, k) == IF k = 0 THEN 0 ELSE BodyStart(s, k - 1) + BodySize(s[k])

\* C5: read consumes exactly one record body: 0 bytes for Null, 16 for
\* Point, 40 + 4*NumParts + 16*NumPoints for PolyLine / Polygon.  So of
\* well-formed bodies written one after another, each read decodes the value
\* that was written and leaves the source at the start of the next body.
C5_ReadConsumesOneBody ==
    /\ \A k \in 1..Len(decoded) :
          /\ consumed[k] = BodySize(written[k])
          /\ decoded[k] = written[k]
    /\ pos = BodyStart(written, Len(decoded))

\* C5 witness: a PolyLine with parts and points, a Null and a Point were
\* read back one after another, the Point from offset 80 of the source
C5_Witness ==
    /\ Len(decoded) = 3
    /\ written[1].variant = "PolyLine"
    /\ written[1].Parts = <<258, -2>>
    /\ written[2].variant = "Null"
    /\ written[3].variant = "Point"
    /\ consumed = <<80, 0, 16>>
    /\ decoded[3] = MkPointShape(MkPoint(F(-1), F(5)))
    /\ pos = Len(stream)

-----------------------------------------------------------------------------
(* Field and its constructors.  A string is the sequence of its bytes.     *)

\* the lengths of Field's arrays: Name [11]byte, Addr [4]byte, Padding [14]byte
NameLen == 11

AddrLen == 4

PaddingLen == 14

Zeros(n) == [i \in 1..n |-> 0]

\* Field{Fieldtype: fieldtype, Size: size, Precision: precision}: the fields
\* not named are zero
FieldLiteral(fieldtype, size, precision) ==
    [Name |-> Zeros(NameLen), Fieldtype |-> fieldtype, Addr |-> Zeros(AddrLen),
     Size |-> size, Precision |-> precision, Padding |-> Zeros(PaddingLen)]

\* copy(dst, src): the first min(len(dst), len(src)) elements of dst are
\* overwritten
Copy(dst, src) == [i \in 1..Len(dst) |-> IF i <= Len(src) THEN src[i] ELSE dst[i]]

\* 'C', 'N', 'F', 'D'
CharC == 67

CharN == 78

CharF == 70

CharD == 68

StringField(name, length) ==
    LET f == FieldLiteral(CharC, length, 0) IN [f EXCEPT !.Name = Copy(f.Name, name)]

\* a mutant of NumberField: the tag of StringField
NumberFieldTaggedC(name, length) ==
    LET f == FieldLiteral(CharC, length, 0) IN [f EXCEPT !.Name = Copy(f.Name, name)]

NumberField(name, length) ==
    LET f == FieldLiteral(CharN, length, 0) IN [f EXCEPT !.Name = Copy(f.Name, name)]

FloatField(name, length, precision) ==
    LET f == FieldLiteral(CharF, length, precision) IN [f EXCEPT !.Name = Copy(f.Name, name)]

DateField(name) ==
    LET f == FieldLiteral(CharD, 8, 0) IN [f EXCEPT !.Name = Copy(f.Name, name)]

\* "ExceedsElevenChars" and "City"
LongName == <<69, 120, 99, 101, 101, 100, 115, 69, 108, 101, 118, 101, 110, 67, 104, 97, 114, 115>>

City == <<67, 105, 116, 121>>

\* the longest name passed to a constructor
MaxNameLen == 13

\* the names: "City" and the prefixes of "ExceedsElevenChars"
NameSamples == {City} \cup {SubSeq(LongName, 1, n) : n \in 0..MaxNameLen}

\* the uint8 arguments
LengthSamples == {0, 10, 50, 255}

PrecisionSamples == {0, 3, 255}

\* the arguments a caller holds; no constructor was called yet
InitField ==
    /\ call \in [fn : {"none"}, name : NameSamples, length : LengthSamples,
                 precision : PrecisionSamples]
    /\ field = FieldLiteral(0, 0, 0)
    /\ BoxIdle /\ BBoxIdle /\ CodecIdle /\ StreamIdle

StringFieldCall ==
    /\ call' = [call EXCEPT !.fn = "StringField"]
    /\ field' = StringField(call.name, call.length)
    /\ UNCHANGED <<boxVars, bboxVars, codecVars, streamVars>>

NumberFieldCall ==
    /\ call' = [call EXCEPT !.fn = "NumberField"]
    /\ field' = NumberField(call.name, call.length)
    /\ UNCHANGED <<boxVars, bboxVars, codecVars, streamVars>>

FloatFieldCall ==
    /\ call' = [call EXCEPT !.fn = "FloatField"]
    /\ field' = FloatField(call.name, call.length, call.precision)
    /\ UNCHANGED <<boxVars, bboxVars, codecVars, streamVars>>

DateFieldCall ==
    /\ call' = [call EXCEPT !.fn = "DateField"]
    /\ field' = DateField(call.name)
    /\ UNCHANGED <<boxVars, bboxVars, codecVars, streamVars>>

NextField ==
    \/ StringFieldCall
    \/ NumberFieldCall
    \/ FloatFieldCall
    \/ DateFieldCall

SpecField == InitField /\ [][NextField]_vars

\* C10: each constructor returns a Field with its tag ('C', 'N', 'F',
\* 'D'), Size the given length (DateField: 8), Precision the given
\* precision for FloatField and 0 otherwise, Name the first
\* min(len(name), 11) bytes of name followed by zero bytes, and Addr and
\* Padding all zero.
C10_FieldConstructors ==
    call.fn # "none" =>
        /\ field.Fieldtype = CASE call.fn = "StringField" -> 67
                               [] call.fn = "NumberField" -> 78
                               [] call.fn = "FloatField"  -> 70
                               [] call.fn = "DateField"   -> 68
        /\ field.Size = IF call.fn = "DateField" THEN 8 ELSE call.length
        /\ field.Precision = IF call.fn = "FloatField" THEN call.precision ELSE 0
        /\ Len(field.Name) = 11
        /\ \A i \in 1..11 :
              field.Name[i] = IF i <= Len(call.name) THEN call.name[i] ELSE 0
        /\ field.Addr = <<0, 0, 0, 0>>
        /\ field.Padding = <<0, 0, 0, 0, 0, 0, 0, 0, 0, 0, 0, 0, 0, 0>>
        /\ (call.fn = "StringField" /\ call.name = City /\ call.length = 50) =>
              field.Name = <<67, 105, 116, 121, 0, 0, 0, 0, 0, 0, 0>>

\* C10 witness: NumberField was called with a 13-byte name and a precision
\* the caller holds but cannot pass; the name is stored cut to 11 bytes
C10_Witness ==
    /\ call.fn = "NumberField"
    /\ Len(call.name) = 13
    /\ call.length = 10
    /\ call.precision = 3
    /\ field.Name = SubSeq(LongName, 1, 11)

=============================================================================
